---------------------------- MODULE Spec2Model ----------------------------
(***************************************************************************)
(* A model of comtrade.js: addComtradeData fetches trade records from the  *)
(* UN comtrade API, ranks the partners of the latest period, backfills the *)
(* history of the significant ones in batches and redraws a stacked area   *)
(* chart after every batch.                                                *)
(*                                                                         *)
(* JavaScript runs each continuation of an async function to its next      *)
(* await without interruption, so one action models one continuation: the  *)
(* code from one await (or the call) to the next await, return or throw.   *)
(***************************************************************************)
EXTENDS Integers, Sequences, FiniteSets, TLC

VARIABLES
    pc,                 \* where addComtradeData stands
    loading,            \* <p>Loading...</p> elements in the container
    svg,                \* the container holds an <svg>
    dataSpace,          \* the <path> children of g#dataSpace, in DOM order
    colorsDomain,       \* the implicit domain of the ordinal scale `colors`
    sourceData,         \* the accumulated records
    newData,            \* the ranking response (line 77)
    unqueriedPartners,  \* the backfill queue
    queryPartners,      \* the batch being fetched
    inFlight,           \* requests sent and not yet answered
    error,              \* why addComtradeData rejected ("none" when it has not)
    fetchLog,           \* history: every request issued, in order
    initialQueue,       \* history: the queue as the ranking pass built it
    renderCalls,        \* history: calls of updateChart
    batchesDone,        \* history: batch fetches that resolved
    inFlightAtRender,   \* history: most requests in flight at any call of updateChart
    warnings,           \* history: console.warn calls
    renderedData,       \* history: the records of the last render that completed
    uIn, uOut, uApplied \* uniqueData alone: its input, its output, applied or not

vars == << pc, loading, svg, dataSpace, colorsDomain, sourceData, newData,
           unqueriedPartners, queryPartners, inFlight, error, fetchLog,
           initialQueue, renderCalls, batchesDone, inFlightAtRender, warnings,
           renderedData, uIn, uOut, uApplied >>

---------------------------------------------------------------------------
(* Bounds of the model *)

NPeriods == 2       \* years the API has data for
NPartners == 6      \* partners the ranking response may list
MaxLen == 3         \* longest input of uniqueData checked alone

(* Program constants *)

world == 0
canada == 124
BatchSize == 5
ShareDivisor == 20

\* d3-scale-chromatic's schemeAccent
schemeAccent == << "#7fc97f", "#beaed4", "#fdc086", "#ffff99",
                  "#386cb0", "#f0027f", "#bf5b17", "#666666" >>

(* The API's partner areas: code and title of each partner *)
PartnerCodes == << 124, 156, 842, 410, 36, 704, 76, 360 >>
PartnerTitles == << "Canada", "China", "USA", "Rep. of Korea", "Australia",
                    "Viet Nam", "Brazil", "Indonesia" >>

Title(code) ==
    IF code = world THEN "World"
    ELSE PartnerTitles[CHOOSE i \in 1..Len(PartnerCodes) : PartnerCodes[i] = code]

Rec(code, period, value) ==
    [ ptCode |-> code, ptTitle |-> Title(code), period |-> period, TradeValue |-> value ]

---------------------------------------------------------------------------
(* Sequences *)

Min(a, b) == IF a < b THEN a ELSE b
Max(a, b) == IF a > b THEN a ELSE b

Range(s) == { s[i] : i \in 1..Len(s) }

\* Array.prototype.slice(-k)
SliceLast(s, k) == SubSeq(s, Max(1, Len(s) - k + 1), Len(s))
\* Array.prototype.slice(0, -k)
SliceButLast(s, k) == SubSeq(s, 1, Max(0, Len(s) - k))

\* the distinct elements of s in order of first appearance (a JS Set's order)
RECURSIVE InsertionOrder(_)
InsertionOrder(s) ==
    IF s = << >> THEN << >>
    ELSE LET init == InsertionOrder(SubSeq(s, 1, Len(s) - 1))
             x == s[Len(s)]
         IN  IF x \in Range(init) THEN init ELSE Append(init, x)

\* the sequence s, each element evaluated once
Evaluated(s) == SubSeq(s, 1, Len(s))

Without(s, x) == SelectSeq(s, LAMBDA e : e # x)

RECURSIVE SumSeq(_)
SumSeq(s) == IF s = << >> THEN 0 ELSE s[1] + SumSeq(Tail(s))

RECURSIVE Flatten(_)
Flatten(ss) == IF ss = << >> THEN << >> ELSE ss[1] \o Flatten(Tail(ss))

---------------------------------------------------------------------------
(* Template strings and d3-time-format, as sequences of characters *)

DigitChars == << "0", "1", "2", "3", "4", "5", "6", "7", "8", "9" >>

\* `${n}` of a non-negative integer
RECURSIVE ToStr(_)
ToStr(n) ==
    IF n < 10 THEN << DigitChars[n + 1] >>
    ELSE Append(ToStr(n \div 10), DigitChars[(n % 10) + 1])

DigitValue(c) == (CHOOSE i \in 1..10 : DigitChars[i] = c) - 1

RECURSIVE ParseInt(_)
ParseInt(s) ==
    IF s = << >> THEN 0
    ELSE 10 * ParseInt(SubSeq(s, 1, Len(s) - 1)) + DigitValue(s[Len(s)])

\* timeParse('%Y'): the digits, four at most, are read as the year; the date
\* is January 1st of that year
period2date(s) == [ year |-> ParseInt(SubSeq(s, 1, Min(4, Len(s)))), month |-> 0, day |-> 1 ]

\* timeFormat('%Y'): the year, zero-padded to four digits
RECURSIVE Pad4(_)
Pad4(s) == IF Len(s) >= 4 THEN s ELSE Pad4(<< "0" >> \o s)
date2period(date) == Pad4(ToStr(date.year))

\* a - b < 0 on two dates
DateBefore(a, b) ==
    \/ a.year < b.year
    \/ a.year = b.year /\ a.month < b.month
    \/ a.year = b.year /\ a.month = b.month /\ a.day < b.day

---------------------------------------------------------------------------
(* uniqueData, lines 191-201 *)

uid(d) == ToStr(d.ptCode) \o << " ", "-", " " >> \o ToStr(d.period)

RECURSIVE uniqueFrom(_, _)
uniqueFrom(data, dataPoints) ==
    IF data = << >> THEN << >>
    ELSE IF uid(data[1]) \notin dataPoints
         THEN << data[1] >> \o uniqueFrom(Tail(data), dataPoints \cup { uid(data[1]) })
         ELSE uniqueFrom(Tail(data), dataPoints)

\* a variant that keeps the last record of each pair
Reverse(s) == [ i \in 1..Len(s) |-> s[Len(s) + 1 - i] ]
uniqueDataKeepsLast(data) == Reverse(uniqueFrom(Reverse(data), {}))
uniqueData(data) == uniqueFrom(data, {})

---------------------------------------------------------------------------
(* getPeriods, lines 185-189 *)

RECURSIVE SortDates(_)
SortDates(s) ==
    IF s = << >> THEN << >>
    ELSE LET rest == SortDates(Tail(s))
             k == Cardinality({ i \in 1..Len(rest) : DateBefore(rest[i], s[1]) })
         IN  SubSeq(rest, 1, k) \o << s[1] >> \o SubSeq(rest, k + 1, Len(rest))

getPeriods(data) ==
    LET distinct == InsertionOrder([ i \in 1..Len(data) |-> data[i].period ])
    IN  SortDates([ i \in 1..Len(distinct) |-> period2date(ToStr(distinct[i])) ])

---------------------------------------------------------------------------
(* updateChart, lines 103-157 *)

\* lines 105 and 108: the titles in order of first appearance, 'World' deleted
partnersOf(data) ==
    Without(InsertionOrder([ i \in 1..Len(data) |-> data[i].ptTitle ]), "World")

\* lines 111-112
periodDataOf(data, period) ==
    LET formatted == date2period(period)
    IN  SelectSeq(data, LAMBDA d : ToStr(d.period) = formatted)

\* Array.prototype.find, given the outcome of its test on each element: the
\* index of the first element that passes, or 0 for undefined
FindIndex(tests) ==
    IF \E i \in 1..Len(tests) : tests[i]
    THEN CHOOSE i \in 1..Len(tests) : tests[i] /\ \A j \in 1..(i - 1) : ~tests[j]
    ELSE 0

IsWorld(records) == [ i \in 1..Len(records) |-> records[i].ptCode = world ]

hasWorld(records) == FindIndex(IsWorld(records)) # 0
worldTradeOf(records) == records[FindIndex(IsWorld(records))].TradeValue

\* lines 114-116
partnerTradeOf(periodData) ==
    LET others == SelectSeq(periodData, LAMBDA d : d.ptCode # world)
    IN  SumSeq([ i \in 1..Len(others) |-> others[i].TradeValue ])

\* lines 111-126 for one period. Line 113 reads .TradeValue of the result of
\* find(): a TypeError when no record of the period has the world's code.
\* The object of line 120 is built by assignments in the order of the code, a
\* later one replacing an earlier one under the same property name.
periodTrade(data, partners, period) ==
    LET periodData == periodDataOf(data, period)
        valueOf(partner) ==
            LET r == FindIndex([ i \in 1..Len(periodData) |-> periodData[i].ptTitle = partner ])
            IN  IF r # 0 THEN periodData[r].TradeValue ELSE 0
    IN  IF ~hasWorld(periodData)
        THEN [ thrown |-> TRUE ]
        ELSE LET worldTrade == worldTradeOf(periodData)
                 partnerTrade == partnerTradeOf(periodData)
             IN  [ thrown |-> FALSE,
                   warned |-> partnerTrade > worldTrade,
                   trade |-> [ k \in { "period", "Other" } \cup Range(partners) |->
                                IF k \in Range(partners) THEN valueOf(k)
                                ELSE IF k = "Other" THEN worldTrade - partnerTrade
                                ELSE period ] ]

\* lines 110-126
allTradeOf(data) ==
    LET periods == getPeriods(data)
        partners == partnersOf(data)
    IN  Evaluated([ j \in 1..Len(periods) |-> periodTrade(data, partners, periods[j]) ])

\* line 128: Set.add
keysOf(data) ==
    LET partners == partnersOf(data)
    IN  IF "Other" \in Range(partners) THEN partners ELSE Append(partners, "Other")

\* lines 136-140: stackOrderNone, stackOffsetNone: each band starts where the
\* band of the key before it ends
stackOf(keys, allTrade) ==
    Evaluated([ i \in 1..Len(keys) |->
        [ key |-> keys[i],
          index |-> i - 1,
          points |-> Evaluated([ j \in 1..Len(allTrade) |->
              LET y0 == SumSeq([ h \in 1..(i - 1) |-> allTrade[j][keys[h]] ])
              IN  [ y0 |-> y0, y1 |-> y0 + allTrade[j][keys[i]], data |-> allTrade[j] ] ]) ] ])

\* lines 130-134: the outline of one band. X and Y are fixed when the chart
\* is set up (lines 49-61), so the outline is kept in data coordinates.
areaGen(points) ==
    [ j \in 1..Len(points) |->
        [ x |-> points[j].data["period"], y0 |-> points[j].y0, y1 |-> points[j].y1 ] ]

\* line 29: an ordinal scale with no domain set gives each value it has not
\* seen the next colour of its range, and remembers it
colorsSeen(domain, i) == IF i \in Range(domain) THEN domain ELSE Append(domain, i)
colors(domain, i) ==
    LET d == colorsSeen(domain, i)
        pos == CHOOSE p \in 1..Len(d) : d[p] = i
    IN  schemeAccent[((pos - 1) % Len(schemeAccent)) + 1]

\* the scale's domain after the fill of the first n paths has been computed:
\* colors(i) has been called, in the order of the paths, for each of them
\* that is neither 'Canada' nor 'Other'
domainAfter(keys, n, domain) ==
    domain \o SelectSeq([ i \in 1..n |-> i - 1 ],
                        LAMBDA i : /\ keys[i + 1] \notin { "Canada", "Other" }
                                   /\ i \notin Range(domain))

\* lines 146-152
fillOf(keys, i, domain) ==
    CASE keys[i] = "Canada" -> "red"
      [] keys[i] = "Other" -> "grey"
      [] OTHER -> colors(domainAfter(keys, i - 1, domain), i - 1)

\* line 156: append('title') on the joined selection, entering and updated
\* paths alike
titlesOf(old, key) ==
    LET at == FindIndex([ i \in 1..Len(old) |-> old[i].key = key ])
    IN  (IF at # 0 THEN old[at].titles ELSE << >>) \o << key >>

\* lines 142-156: the join by key keeps the path of a key that is still
\* there, adds one for a new key, removes the others and puts the paths in
\* the order of the series
joinPaths(old, series, domain) ==
    LET keys == Evaluated([ i \in 1..Len(series) |-> series[i].key ])
    IN  [ i \in 1..Len(series) |->
            [ key |-> series[i].key,
              fill |-> fillOf(keys, i, domain),
              d |-> areaGen(series[i].points),
              titles |-> titlesOf(old, series[i].key) ] ]

\* lines 103-157: the chart's paths, the colour scale and the warnings of
\* the call; when line 113 throws, the warnings of the periods before it and
\* the chart untouched
chartOf(old, domain, keys, allTrade) ==
    [ ok |-> TRUE,
      dataSpace |-> joinPaths(old,
          stackOf(keys, Evaluated([ j \in 1..Len(allTrade) |-> allTrade[j].trade ])),
          domain),
      colorsDomain |-> domainAfter(keys, Len(keys), domain),
      warned |-> Cardinality({ j \in 1..Len(allTrade) : allTrade[j].warned }) ]

\* a variant that leaves out the periods without a world record
updateChartSkippingPeriods(old, domain, data) ==
    LET kept == SelectSeq(data, LAMBDA d :
                    \E i \in 1..Len(data) :
                        data[i].ptCode = world /\ data[i].period = d.period)
    IN  chartOf(old, domain, keysOf(kept), allTradeOf(kept))

updateChart(old, domain, data) ==
    LET allTrade == allTradeOf(data)
        thrownAt == FindIndex([ j \in 1..Len(allTrade) |-> allTrade[j].thrown ])
    IN  IF thrownAt # 0
        THEN [ ok |-> FALSE, dataSpace |-> old, colorsDomain |-> domain,
               warned |-> Cardinality({ j \in 1..(thrownAt - 1) : allTrade[j].warned }) ]
        ELSE chartOf(old, domain, keysOf(data), allTrade)

---------------------------------------------------------------------------
(* getAllDataFor, lines 170-183: the request it sends, and the datasets   *)
(* the API may answer with                                                 *)

\* lines 172-180: 'all', or the codes and periods joined into the URL
Request(partners, allPartners, periods, allPeriods) ==
    [ p |-> partners, pAll |-> allPartners, ps |-> periods, psAll |-> allPeriods ]

PeriodList == [ i \in 1..NPeriods |-> 2018 + i ]
FirstPeriods(k) == { PeriodList[i] : i \in 1..k }

WorldValues == { 200 }
CanadaValues == { 10 }
RankValues == { 9, 10 }
BatchValues == { 12, 120 }

\* one record per partner asked for and period it reports, the periods
\* ascending and the partners of a period in the order asked
DatasetOf(partners, reported, value) ==
    Flatten([ j \in 1..NPeriods |->
        LET has == SelectSeq(partners, LAMBDA c : PeriodList[j] \in reported[c])
        IN  [ i \in 1..Len(has) |-> Rec(has[i], PeriodList[j], value[has[i]]) ] ])

\* answers to the request of line 40: the world's and Canada's history, each
\* from the first year on for some number of years
InitialResponses ==
    { DatasetOf(<< world, canada >>,
                [ c \in { world, canada } |->
                    IF c = world THEN FirstPeriods(w) ELSE FirstPeriods(k) ],
                [ c \in { world, canada } |-> IF c = world THEN wv ELSE cv ]) :
        w \in 0..NPeriods, k \in 0..NPeriods, wv \in WorldValues, cv \in CanadaValues }

\* answers to the request of line 77: the world and the first n partners
\* in the one period asked for, the first partner listed again when dup
RankingResponses(periods) ==
    IF periods = << >> THEN { << >> }
    ELSE { << >> } \cup
         { << Rec(world, periods[1], wv) >>
             \o [ i \in 1..n |-> Rec(PartnerCodes[i], periods[1], vals[i]) ]
             \o (IF dup /\ n > 0 THEN << Rec(PartnerCodes[1], periods[1], vals[1]) >> ELSE << >>) :
           n \in 0..NPartners, vals \in [ 1..NPartners -> RankValues ],
           wv \in WorldValues, dup \in BOOLEAN }

\* answers to the request of line 93: the history of the partners asked for
BatchResponses(partners) ==
    { DatasetOf(partners, [ c \in Range(partners) |-> FirstPeriods(k) ],
                [ c \in Range(partners) |-> v ]) :
        k \in 0..NPeriods, v \in BatchValues }

---------------------------------------------------------------------------
(* addComtradeData, lines 31-101 *)

\* lines 83-88: the partners with at least a twentieth of the world's trade.
\* TradeValue >= worldTrade/20 is compared as TradeValue*20 >= worldTrade,
\* the same comparison without the division. The filter of line 88 drops
\* what map left undefined, and any code that is falsy: 0.
\* First a variant with the bound excluded.
significantPartnersStrict(data) ==
    LET worldTrade == worldTradeOf(data)
        picked == SelectSeq(data, LAMBDA d :
                      d.TradeValue * ShareDivisor > worldTrade /\ d.ptCode # world)
    IN  SelectSeq([ i \in 1..Len(picked) |-> picked[i].ptCode ], LAMBDA c : c # 0)

significantPartners(data) ==
    LET worldTrade == worldTradeOf(data)
        picked == SelectSeq(data, LAMBDA d :
                      d.TradeValue * ShareDivisor >= worldTrade /\ d.ptCode # world)
    IN  SelectSeq([ i \in 1..Len(picked) |-> picked[i].ptCode ], LAMBDA c : c # 0)

\* line 96, and two variants: the new records first, and no deduplication
mergeNewFirst(data, response) == uniqueData(response \o data)
mergeWithoutDedupe(data, response) == data \o response
mergeData(data, response) == uniqueData(data \o response)

\* lines 91-92, and a variant that leaves one partner of the batch queued
restOfOverlapping(queue) == SliceButLast(queue, BatchSize - 1)
batchOf(queue) == SliceLast(queue, BatchSize)
restOf(queue) == SliceButLast(queue, BatchSize)

\* line 78: the last of the periods, formatted
lastPeriod(data) ==
    LET periods == getPeriods(data)
    IN  IF periods = << >> THEN << >>
        ELSE << ParseInt(date2period(periods[Len(periods)])) >>

Rejects(why) ==
    /\ pc' = "failed"
    /\ error' = why

\* a variant that does not await a batch before it requests the next
LoopFromAllAtOnce(queue) ==
    IF Len(queue) > 0
    THEN /\ queryPartners' = batchOf(queue)
         /\ unqueriedPartners' = restOf(queue)
         /\ inFlight' = Append(Tail(inFlight), Request(batchOf(queue), FALSE, << >>, TRUE))
                \o (IF Len(restOf(queue)) > 0
                    THEN << Request(batchOf(restOf(queue)), FALSE, << >>, TRUE) >>
                    ELSE << >>)
         /\ fetchLog' = Append(fetchLog, Request(batchOf(queue), FALSE, << >>, TRUE))
         /\ pc' = "awaitBatch"
         /\ UNCHANGED << loading, error >>
    ELSE /\ loading' = loading - 1
         /\ pc' = "done"
         /\ inFlight' = Tail(inFlight)
         /\ unqueriedPartners' = queue
         /\ UNCHANGED << queryPartners, fetchLog, error >>

\* lines 89-100 from the test of the loop, the awaited response taken: the
\* next batch is requested, or the loading text is removed and the function
\* returns
LoopFrom(queue) ==
    IF Len(queue) > 0
    THEN /\ queryPartners' = batchOf(queue)
         /\ unqueriedPartners' = restOf(queue)
         /\ inFlight' = Append(Tail(inFlight), Request(batchOf(queue), FALSE, << >>, TRUE))
         /\ fetchLog' = Append(fetchLog, Request(batchOf(queue), FALSE, << >>, TRUE))
         /\ pc' = "awaitBatch"
         /\ UNCHANGED << loading, error >>
    ELSE /\ loading' = loading - 1
         /\ pc' = "done"
         /\ inFlight' = Tail(inFlight)
         /\ unqueriedPartners' = queue
         /\ UNCHANGED << queryPartners, fetchLog, error >>

\* a variant without line 36
CallWithoutLoading ==
    /\ pc = "idle"
    /\ svg' = FALSE
    /\ inFlight' = Append(inFlight, Request(<< world, canada >>, FALSE, << >>, TRUE))
    /\ fetchLog' = Append(fetchLog, Request(<< world, canada >>, FALSE, << >>, TRUE))
    /\ pc' = "awaitInitial"
    /\ UNCHANGED << loading, dataSpace, colorsDomain, sourceData, newData,
                    unqueriedPartners, queryPartners, error, initialQueue, renderCalls,
                    batchesDone, inFlightAtRender, warnings, renderedData,
                    uIn, uOut, uApplied >>

\* lines 33-40, to the first await
Call ==
    /\ pc = "idle"
    /\ svg' = FALSE
    /\ loading' = loading + 1
    /\ inFlight' = Append(inFlight, Request(<< world, canada >>, FALSE, << >>, TRUE))
    /\ fetchLog' = Append(fetchLog, Request(<< world, canada >>, FALSE, << >>, TRUE))
    /\ pc' = "awaitInitial"
    /\ UNCHANGED << dataSpace, colorsDomain, sourceData, newData, unqueriedPartners,
                    queryPartners, error, initialQueue, renderCalls, batchesDone,
                    inFlightAtRender, warnings, renderedData, uIn, uOut, uApplied >>

\* lines 40-79: the first response arrives; the chart is set up and drawn and
\* the ranking request is sent
InitialResolves ==
    /\ pc = "awaitInitial"
    /\ \E response \in InitialResponses :
        \E data \in { uniqueData(response) } :
        \E drawn \in { updateChart(<< >>, colorsDomain, data) } :
        \E ranking \in { Request(<< >>, TRUE, lastPeriod(data), FALSE) } :
            /\ sourceData' = data
            /\ svg' = TRUE
            /\ renderCalls' = renderCalls + 1
            /\ inFlightAtRender' = Max(inFlightAtRender, Len(Tail(inFlight)))
            /\ warnings' = warnings + drawn.warned
            /\ IF drawn.ok
               THEN /\ dataSpace' = drawn.dataSpace
                    /\ colorsDomain' = drawn.colorsDomain
                    /\ renderedData' = data
                    /\ inFlight' = Append(Tail(inFlight), ranking)
                    /\ fetchLog' = Append(fetchLog, ranking)
                    /\ pc' = "awaitRanking"
                    /\ UNCHANGED error
               ELSE /\ Rejects("lookup")
                    /\ dataSpace' = << >>
                    /\ inFlight' = Tail(inFlight)
                    /\ UNCHANGED << colorsDomain, renderedData, fetchLog >>
    /\ UNCHANGED << loading, newData, unqueriedPartners, queryPartners, initialQueue,
                    batchesDone, uIn, uOut, uApplied >>

\* lines 83-100: the ranking response arrives; the queue is built and the
\* loop entered
RankingResolves ==
    /\ pc = "awaitRanking"
    /\ \E response \in RankingResponses(inFlight[1].ps) :
        /\ newData' = response
        /\ IF hasWorld(response)
           THEN /\ initialQueue' = significantPartners(response)
                /\ LoopFrom(significantPartners(response))
           ELSE /\ Rejects("lookup")
                /\ inFlight' = Tail(inFlight)
                /\ UNCHANGED << initialQueue, unqueriedPartners, queryPartners,
                                loading, fetchLog >>
    /\ UNCHANGED << svg, dataSpace, colorsDomain, sourceData, renderCalls, batchesDone,
                    inFlightAtRender, warnings, renderedData, uIn, uOut, uApplied >>

\* lines 93-100: a batch response arrives; it is merged, the chart redrawn
\* and the loop tested again
BatchResolves ==
    /\ pc = "awaitBatch"
    /\ \E response \in BatchResponses(queryPartners) :
        \E data \in { mergeData(sourceData, response) } :
        \E drawn \in { updateChart(dataSpace, colorsDomain, data) } :
            /\ sourceData' = data
            /\ batchesDone' = batchesDone + 1
            /\ renderCalls' = renderCalls + 1
            /\ inFlightAtRender' = Max(inFlightAtRender, Len(Tail(inFlight)))
            /\ warnings' = warnings + drawn.warned
            /\ IF drawn.ok
               THEN /\ dataSpace' = drawn.dataSpace
                    /\ colorsDomain' = drawn.colorsDomain
                    /\ renderedData' = data
                    /\ LoopFrom(unqueriedPartners)
               ELSE /\ Rejects("lookup")
                    /\ inFlight' = Tail(inFlight)
                    /\ UNCHANGED << dataSpace, colorsDomain, renderedData,
                                    unqueriedPartners, queryPartners, loading, fetchLog >>
    /\ UNCHANGED << svg, newData, initialQueue, uIn, uOut, uApplied >>

\* a variant that sends the failed request again
FetchFailsAndRetries ==
    /\ pc \in { "awaitInitial", "awaitRanking", "awaitBatch" }
    /\ error = "none"
    /\ error' = "fetch"
    /\ fetchLog' = Append(fetchLog, inFlight[1])
    /\ UNCHANGED << pc, inFlight, loading, svg, dataSpace, colorsDomain, sourceData,
                    newData, unqueriedPartners, queryPartners, initialQueue,
                    renderCalls, batchesDone, inFlightAtRender, warnings,
                    renderedData, uIn, uOut, uApplied >>

\* line 181: json() rejects, or the document has no dataset and the first
\* use of the undefined result throws; either way the call rejects where it
\* awaits
FetchFails ==
    /\ pc \in { "awaitInitial", "awaitRanking", "awaitBatch" }
    /\ Rejects("fetch")
    /\ inFlight' = Tail(inFlight)
    /\ UNCHANGED << loading, svg, dataSpace, colorsDomain, sourceData, newData,
                    unqueriedPartners, queryPartners, fetchLog, initialQueue,
                    renderCalls, batchesDone, inFlightAtRender, warnings,
                    renderedData, uIn, uOut, uApplied >>

Init ==
    /\ pc = "idle"
    /\ loading = 0
    /\ svg = FALSE
    /\ dataSpace = << >>
    /\ colorsDomain = << >>
    /\ sourceData = << >>
    /\ newData = << >>
    /\ unqueriedPartners = << >>
    /\ queryPartners = << >>
    /\ inFlight = << >>
    /\ error = "none"
    /\ fetchLog = << >>
    /\ initialQueue = << >>
    /\ renderCalls = 0
    /\ batchesDone = 0
    /\ inFlightAtRender = 0
    /\ warnings = 0
    /\ renderedData = << >>
    /\ uIn = << >>
    /\ uOut = << >>
    /\ uApplied = FALSE

Next ==
    \/ Call
    \/ InitialResolves
    \/ RankingResolves
    \/ BatchResolves
    \/ FetchFails

Spec == Init /\ [][Next]_vars

---------------------------------------------------------------------------
(* uniqueData on its own: any sequence of records, then one call *)

UniqueRecords ==
    { Rec(c, y, v) : c \in { world, canada }, y \in { 2019, 2020 }, v \in { 10, 20 } }

UniqueInit ==
    /\ uIn \in UNION { [ 1..n -> UniqueRecords ] : n \in 0..MaxLen }
    /\ uOut = << >>
    /\ uApplied = FALSE
    /\ pc = "idle"
    /\ loading = 0
    /\ svg = FALSE
    /\ dataSpace = << >>
    /\ colorsDomain = << >>
    /\ sourceData = << >>
    /\ newData = << >>
    /\ unqueriedPartners = << >>
    /\ queryPartners = << >>
    /\ inFlight = << >>
    /\ error = "none"
    /\ fetchLog = << >>
    /\ initialQueue = << >>
    /\ renderCalls = 0
    /\ batchesDone = 0
    /\ inFlightAtRender = 0
    /\ warnings = 0
    /\ renderedData = << >>

ApplyUnique ==
    /\ ~uApplied
    /\ uOut' = uniqueData(uIn)
    /\ uApplied' = TRUE
    /\ UNCHANGED << pc, loading, svg, dataSpace, colorsDomain, sourceData, newData,
                    unqueriedPartners, queryPartners, inFlight, error, fetchLog,
                    initialQueue, renderCalls, batchesDone, inFlightAtRender,
                    warnings, renderedData, uIn >>

UniqueNext == ApplyUnique

SpecUnique == UniqueInit /\ [][UniqueNext]_vars

---------------------------------------------------------------------------
(* Properties *)

\* the k-th smallest element of a set of indices
KthOf(S, k) == CHOOSE i \in S : Cardinality({ j \in S : j <= i }) = k

SameKey(a, b) == a.ptCode = b.ptCode /\ a.period = b.period

\* the ranking pass has built the queue
Ranked == \E i \in 1..Len(newData) : newData[i].ptCode = world

RankedWorldTrade ==
    newData[CHOOSE i \in 1..Len(newData) :
                /\ newData[i].ptCode = world
                /\ \A j \in 1..(i - 1) : newData[j].ptCode # world].TradeValue

\* the partners of each batch request, in the order the requests were sent
Batches == [ i \in 1..(Len(fetchLog) - 2) |-> fetchLog[i + 2].p ]

RECURSIVE ConcatReversed(_)
ConcatReversed(ss) ==
    IF ss = << >> THEN << >> ELSE ConcatReversed(Tail(ss)) \o ss[1]

IsPrefix(s, t) == Len(s) <= Len(t) /\ SubSeq(t, 1, Len(s)) = s

KeysOfChart(paths) == [ i \in 1..Len(paths) |-> paths[i].key ]

\* C1: uniqueData returns the records of its input that are the first with
\* their (partner code, period) pair, each once, in input order.
C1_FirstOccurrences ==
    uApplied =>
        LET first == { i \in 1..Len(uIn) :
                         \A j \in 1..(i - 1) : ~SameKey(uIn[j], uIn[i]) }
        IN  /\ Len(uOut) = Cardinality(first)
            /\ \A k \in 1..Len(uOut) : uOut[k] = uIn[KthOf(first, k)]

C1_Witness ==
    /\ uApplied
    /\ Len(uIn) = 3
    /\ SameKey(uIn[1], uIn[3])
    /\ uIn[1] # uIn[3]
    /\ ~SameKey(uIn[1], uIn[2])
    /\ uOut = << uIn[1], uIn[2] >>

\* C2: the queue the ranking pass builds holds the partner code of every
\* record of the response, in response order, whose trade value is at least
\* a twentieth of the world record's, the bound included, and never the
\* world's code.
C2_QueueIsFivePercentPartners ==
    Ranked =>
        LET picked == { i \in 1..Len(newData) :
                          /\ newData[i].ptCode # world
                          /\ 20 * newData[i].TradeValue >= RankedWorldTrade }
        IN  /\ Len(initialQueue) = Cardinality(picked)
            /\ \A k \in 1..Len(initialQueue) :
                   initialQueue[k] = newData[KthOf(picked, k)].ptCode
            /\ world \notin Range(initialQueue)

C2_Witness ==
    /\ Ranked
    /\ \E i, j \in 1..Len(newData) :
        /\ newData[i].ptCode # world
        /\ newData[j].ptCode # world
        /\ 20 * newData[i].TradeValue = RankedWorldTrade
        /\ 20 * newData[j].TradeValue < RankedWorldTrade
        /\ newData[i].ptCode \in Range(initialQueue)
        /\ newData[j].ptCode \notin Range(initialQueue)

\* C3 as stated: once every fetch has succeeded and the run is over, the
\* queue is empty and ceil(n/5) batches were fetched.
C3_DrainsWheneverFetchesSucceed ==
    (Ranked /\ pc \in { "done", "failed" } /\ error # "fetch") =>
        /\ unqueriedPartners = << >>
        /\ Len(Batches) = (Len(initialQueue) + 4) \div 5

C3_Safety ==
    Ranked =>
        /\ unqueriedPartners \o ConcatReversed(Batches) = initialQueue
        /\ \A i \in 1..Len(Batches) :
               Len(Batches[i]) = Min(5, Len(initialQueue) - 5 * (i - 1))
        /\ batchesDone <= Len(Batches)
        /\ (pc \in { "done", "failed" } /\ error = "none") =>
               /\ pc = "done"
               /\ unqueriedPartners = << >>
               /\ Len(Batches) = (Len(initialQueue) + 4) \div 5
               /\ batchesDone = Len(Batches)

C3_Progress ==
    pc = "awaitBatch" =>
        \/ pc' \in { "done", "failed" }
        \/ pc' = "awaitBatch" /\ Len(unqueriedPartners') < Len(unqueriedPartners)

\* C3, amended: the batches are successive tail slices of five (the last one
\* shorter) of the initial queue, so every queue entry is in exactly one
\* batch; every batch response ends the run or leaves a shorter queue; and a
\* run that ends with no fetch and no render failed ends with an empty queue
\* after ceil(n/5) batches.
C3_BackfillDrains ==
    /\ []C3_Safety
    /\ [][C3_Progress]_vars

C3_Witness ==
    /\ pc = "done"
    /\ Len(initialQueue) = 6
    /\ Len(Batches) = 2
    /\ Batches[1] = SubSeq(initialQueue, 2, 6)
    /\ Batches[2] = SubSeq(initialQueue, 1, 1)

C4_State ==
    /\ Len(inFlight) <= 1
    /\ inFlightAtRender = 0
    /\ renderCalls = (IF svg THEN 1 ELSE 0) + batchesDone
    /\ (pc = "done" /\ initialQueue = << >>) => renderCalls = 1

C4_Step ==
    (renderCalls' # renderCalls /\ renderCalls >= 1) =>
        /\ pc = "awaitBatch"
        /\ Len(inFlight) = 1
        /\ inFlight[1].p = queryPartners
        /\ renderCalls' = renderCalls + 1
        /\ batchesDone' = batchesDone + 1
        /\ IsPrefix(sourceData, sourceData')
        /\ \A i, j \in 1..Len(sourceData') :
               SameKey(sourceData'[i], sourceData'[j]) => i = j
        /\ pc' # "failed" => renderedData' = sourceData'

\* C4: at most one request is in flight, none while updateChart runs; every
\* call of updateChart but the first is in the step that takes one batch
\* response and merges it, without duplicates, after the accumulated records;
\* so updateChart has been called once per completed batch, plus once when
\* the chart was set up.
C4_SequentialFetchAndRender ==
    /\ []C4_State
    /\ [][C4_Step]_vars

C4_Witness ==
    /\ pc = "done"
    /\ renderCalls = 3
    /\ batchesDone = 2

\* C5: the loading text is there from the first request on, through every
\* fetch and render; it is removed only when the queue is empty and the last
\* render is done, and stays when the call rejects.
C5_LoadingUntilCompletion ==
    /\ pc = "idle" => (loading = 0 /\ fetchLog = << >>)
    /\ pc \in { "awaitInitial", "awaitRanking", "awaitBatch", "failed" } => loading = 1
    /\ pc = "done" =>
           /\ loading = 0
           /\ unqueriedPartners = << >>
           /\ inFlight = << >>
           /\ renderedData = sourceData
           /\ renderCalls = 1 + Len(Batches)

C5_Witness ==
    /\ pc = "done"
    /\ loading = 0
    /\ batchesDone = 2

C6_State ==
    error = "fetch" =>
        /\ pc = "failed"
        /\ inFlight = << >>

C6_Step ==
    /\ error' = "fetch" =>
           /\ fetchLog' = fetchLog
           /\ renderCalls' = renderCalls
           /\ dataSpace' = dataSpace
           /\ unqueriedPartners' = unqueriedPartners
    /\ pc = "failed" => UNCHANGED vars

\* C6: a failed fetch rejects the call: no request is sent after it, the
\* same one included, updateChart is not called again, the queue is left as
\* it was and the chart is as the last completed render left it.
C6_FetchFailureAborts ==
    /\ []C6_State
    /\ [][C6_Step]_vars

C6_Witness ==
    /\ error = "fetch"
    /\ batchesDone = 0
    /\ unqueriedPartners # << >>
    /\ dataSpace # << >>

\* the records of renderedData for one year
RenderedIn(year) == SelectSeq(renderedData, LAMBDA d : d.period = year)
RenderedWorld(year) ==
    LET rs == SelectSeq(RenderedIn(year), LAMBDA d : d.ptCode = world)
    IN  rs[1].TradeValue
RenderedPartners(year) ==
    LET rs == SelectSeq(RenderedIn(year), LAMBDA d : d.ptCode # world)
    IN  SumSeq([ i \in 1..Len(rs) |-> rs[i].TradeValue ])
BandHeight(path, j) == path.d[j].y1 - path.d[j].y0

\* C7: in the chart of every completed render, at every period, the band
\* 'Other' is the world's trade less the trade of the period's other records,
\* the bands add up to the world's trade, and a negative 'Other' has been
\* warned of.
C7_OtherIsResidual ==
    dataSpace # << >> =>
        LET top == dataSpace[Len(dataSpace)]
        IN  /\ top.key = "Other"
            /\ \A j \in 1..Len(top.d) :
                LET year == top.d[j].x.year
                IN  /\ BandHeight(top, j) = RenderedWorld(year) - RenderedPartners(year)
                    /\ dataSpace[1].d[j].y0 = 0
                    /\ \A i \in 2..Len(dataSpace) :
                           dataSpace[i].d[j].y0 = dataSpace[i - 1].d[j].y1
                    /\ top.d[j].y1 = RenderedWorld(year)
                    /\ BandHeight(top, j) < 0 => warnings > 0
            /\ { top.d[j].x.year : j \in 1..Len(top.d) }
                   = { renderedData[i].period : i \in 1..Len(renderedData) }

C7_Witness ==
    /\ pc = "done"
    /\ warnings > 0
    /\ Len(dataSpace) >= 3
    /\ \E j \in 1..Len(dataSpace[1].d) :
           /\ BandHeight(dataSpace[Len(dataSpace)], j) < 0
           /\ dataSpace[Len(dataSpace)].d[j].y1 = 200

\* C8: a call of updateChart with the records of the call before leaves the
\* paths of the chart, their children included, as they were.
C8_RenderIdempotent ==
    [][ (renderCalls' = renderCalls + 1 /\ renderCalls >= 1
            /\ pc' # "failed" /\ sourceData' = sourceData)
        => dataSpace' = dataSpace ]_vars

C9_State ==
    dataSpace # << >> =>
        LET titles == [ i \in 1..Len(renderedData) |-> renderedData[i].ptTitle ]
            first == { i \in 1..Len(titles) :
                         /\ titles[i] # "World"
                         /\ \A j \in 1..(i - 1) : titles[j] # titles[i] }
            keys == KeysOfChart(dataSpace)
        IN  /\ Len(keys) = Cardinality(first) + 1
            /\ \A k \in 1..(Len(keys) - 1) : keys[k] = titles[KthOf(first, k)]
            /\ keys[Len(keys)] = "Other"

C9_Step ==
    (dataSpace # << >> /\ dataSpace' # dataSpace) =>
        LET old == KeysOfChart(dataSpace)
            new == KeysOfChart(dataSpace')
        IN  /\ IsPrefix(SubSeq(old, 1, Len(old) - 1), SubSeq(new, 1, Len(new) - 1))
            /\ \A i \in 1..Len(old) : \E k \in 1..Len(new) :
                   /\ new[k] = old[i]
                   /\ dataSpace'[k].fill = dataSpace[i].fill

\* C9: the categories of a chart are the partner titles in order of first
\* appearance in the records, then 'Other'; from one render to the next the
\* partners drawn before keep their place and their colour, and new ones come
\* after them.
C9_StableCategories ==
    /\ []C9_State
    /\ [][C9_Step]_vars

C9_Witness ==
    /\ pc = "done"
    /\ batchesDone = 2
    /\ Len(dataSpace) = 7
    /\ dataSpace[1].key = "Canada"
    /\ dataSpace[7].fill = "grey"
    /\ dataSpace[2].fill = schemeAccent[1]

\* a period with a partner's record and no record of the world
MissingWorld(data) ==
    \E i \in 1..Len(data) :
        /\ data[i].ptCode # world
        /\ \A j \in 1..Len(data) :
               data[j].period = data[i].period => data[j].ptCode # world

C10_State ==
    MissingWorld(sourceData) =>
        /\ pc = "failed"
        /\ error = "lookup"
        /\ loading = 1
        /\ inFlight = << >>
        /\ renderedData # sourceData

C10_Step ==
    MissingWorld(sourceData') =>
        /\ dataSpace' = dataSpace
        /\ fetchLog' = fetchLog

\* C10: a render of records that hold a period with a partner's record and
\* no world record fails and leaves the chart as it was; the call rejects,
\* no request follows and the loading text stays.
C10_MissingWorldAborts ==
    /\ []C10_State
    /\ [][C10_Step]_vars

C10_Witness ==
    /\ error = "lookup"
    /\ MissingWorld(sourceData)
    /\ batchesDone = 1
    /\ dataSpace # << >>
    /\ unqueriedPartners # << >>
    /\ loading = 1

=============================================================================
